---- MODULE Spec2Model ----
(***************************************************************************)
(* A model of the timeline program: the date-expression parsers of         *)
(* event.py (EventTime) and date_utils.py, the event model (EventTime,     *)
(* Event, EventDB), the chart configuration (Config, ConfigDB) and the     *)
(* tag filter (FilterCond).                                                *)
(*                                                                         *)
(* Values.  A calendar date is a record [tag, year, month, day] with tag   *)
(* "date"; Python's None and a raised exception are records of the same    *)
(* shape whose tag is "None" or the exception's class name.  A date text   *)
(* is the sequence of its tokens once the separators , - / are replaced by *)
(* spaces and whitespace is collapsed: a month name, a number (with the    *)
(* number of digits as written) or a delta component sign-digits-unit.     *)
(* Tags, names and file names are sequences of one-character strings.      *)
(***************************************************************************)
EXTENDS Integers, Sequences, FiniteSets, TLC

VARIABLES
    today,      \* datetime.date.today(), fixed during a run
    files,      \* EventDB.files
    events,     \* EventDB.events
    lastCall,   \* the last EventDB.parse call: arguments, collection before it, exception
    result,     \* the last filter call: query, collection, returned list, exception
    cfiles,     \* ConfigDB.files
    configs,    \* ConfigDB.configs
    craised,    \* the exception class the last ConfigDB.load raised, or "None"
    call,       \* the last call of the two date parsers: text, anchor, the two results
    fcond,      \* a FilterCond object: its conds, or the exception its constructor raised
    fcall,      \* the last FilterCond.filter call: tags and returned value
    ocall       \* an EventTime and the last overlaps call on it: window and answer

vars == <<today, files, events, lastCall, result,
          cfiles, configs, craised, call, fcond, fcall, ocall>>

\* ------------------------------------------------------------------ bounds

\* Largest magnitude of a delta component ("+<n>d" .. "+<n>y") drawn as input.
MaxDelta == 13
\* Number of EventDB.parse calls in a run.
MaxLoads == 2
\* Number of ConfigDB.load calls in a run.
MaxConfigLoads == 2
\* Days of May 2023 the event times and windows of the overlaps calls are drawn from.
MaxDay == 5

\* ------------------------------------------------------------------ values

Date(y, m, d) == [tag |-> "date", year |-> y, month |-> m, day |-> d]
None == [tag |-> "None", year |-> 0, month |-> 0, day |-> 0]
Raise(e) == [tag |-> e, year |-> 0, month |-> 0, day |-> 0]
IsDate(x) == x.tag = "date"
IsRaise(x) == x.tag \notin {"date", "None"}

\* the only element of a one-element set; {e : x \in {v}} computes v once, where a
\* LET definition is computed again at every use
The(S) == CHOOSE x \in S : TRUE

\* datetime.date comparison
DateLT(a, b) ==
    \/ a.year < b.year
    \/ a.year = b.year /\ a.month < b.month
    \/ a.year = b.year /\ a.month = b.month /\ a.day < b.day
DateLE(a, b) == a = b \/ DateLT(a, b)

IsLeap(y) == y % 4 = 0 /\ (y % 100 # 0 \/ y % 400 = 0)
DaysInMonth(y, m) ==
    IF m = 2 THEN (IF IsLeap(y) THEN 29 ELSE 28)
    ELSE IF m \in {4, 6, 9, 11} THEN 30 ELSE 31
\* datetime.date(y, m, d) raises ValueError unless this holds
ValidDate(y, m, d) ==
    /\ y \in 1..9999
    /\ m \in 1..12
    /\ d \in 1..DaysInMonth(y, m)

\* datetime.date.toordinal(): the day number counted from 0001-01-01 as day 1
DaysBeforeYear(y) ==
    365 * (y - 1) + ((y - 1) \div 4) - ((y - 1) \div 100) + ((y - 1) \div 400)
DaysBeforeMonth(y, m) ==
    <<0, 31, 59, 90, 120, 151, 181, 212, 243, 273, 304, 334>>[m]
    + (IF m > 2 /\ IsLeap(y) THEN 1 ELSE 0)
ToOrdinal(x) == DaysBeforeYear(x.year) + DaysBeforeMonth(x.year, x.month) + x.day
\* datetime.date.fromordinal(n)
FromOrdinal(n) ==
    LET y == CHOOSE c \in (n \div 366)..((n \div 365) + 1) :
                 DaysBeforeYear(c) < n /\ n <= DaysBeforeYear(c + 1)
        r == n - DaysBeforeYear(y)
        m == CHOOSE c \in 1..12 :
                 DaysBeforeMonth(y, c) < r /\ r <= DaysBeforeMonth(y, c) + DaysInMonth(y, c)
    IN Date(y, m, r - DaysBeforeMonth(y, m))
\* date + datetime.timedelta(days=n)
AddDays(x, n) == FromOrdinal(ToOrdinal(x) + n)

\* ------------------------------------------------------------------ texts

Mon(m) == [k |-> "mon", v |-> m, w |-> 3, sign |-> "", u |-> ""]
Num(n, width) == [k |-> "num", v |-> n, w |-> width, sign |-> "", u |-> ""]
Delta(s, n, unit) == [k |-> "delta", v |-> n, w |-> 0, sign |-> s, u |-> unit]

\* str.lower() on a unit letter
Lower(c) ==
    CASE c = "D" -> "d" [] c = "W" -> "w" [] c = "M" -> "m" [] c = "Y" -> "y"
      [] OTHER -> c

\* one strptime directive against one token
FitsDirective(tok, dir) ==
    CASE dir = "%b" -> tok.k = "mon"
      [] dir = "%d" -> tok.k = "num" /\ tok.w <= 2 /\ tok.v \in 1..31
      [] dir = "%m" -> tok.k = "num" /\ tok.w <= 2 /\ tok.v \in 1..12
      [] dir = "%Y" -> tok.k = "num" /\ tok.w = 4
      [] OTHER -> FALSE

\* the token a directive of the format converts, 0 when the format has no such directive
FieldOf(text, fmt, dirs, default) ==
    IF \E i \in 1..Len(fmt) : fmt[i] \in dirs
    THEN text[CHOOSE i \in 1..Len(fmt) : fmt[i] \in dirs].v
    ELSE default

\* datetime.datetime.strptime(formatted_str, fmt).date(); the year defaults to 1900
Strptime(text, fmt) ==
    IF Len(text) # Len(fmt) \/ \E i \in 1..Len(fmt) : ~FitsDirective(text[i], fmt[i])
    THEN Raise("ValueError")
    ELSE LET y == FieldOf(text, fmt, {"%Y"}, 1900)
             m == FieldOf(text, fmt, {"%b", "%m"}, 1)
             d == FieldOf(text, fmt, {"%d"}, 1)
         IN IF ValidDate(y, m, d) THEN Date(y, m, d) ELSE Raise("ValueError")

format_strs ==
    << <<"%b", "%d", "%Y">>, <<"%m", "%d", "%Y">>,
       <<"%Y", "%b", "%d">>, <<"%Y", "%m", "%d">> >>

\* ------------------------------------------------------------------ event.py: EventTime

RECURSIVE EventTime_next_month_day_from(_, _, _, _)
EventTime_next_month_day_from(since, month, day, year) ==
    IF ValidDate(year, month, day) /\ DateLT(since, Date(year, month, day))
    THEN Date(year, month, day)
    ELSE EventTime_next_month_day_from(since, month, day, year + 1)

EventTime_next_month_day(since, month, day) ==
    EventTime_next_month_day_from(since, month, day, since.year)

\* time_delta's compensation loop giving up after two days instead of three
RECURSIVE time_delta_compensate_short(_, _, _, _)
time_delta_compensate_short(base, new_year, new_month, compensate) ==
    IF compensate > 2 THEN Raise("Exception")
    ELSE LET date_base == AddDays(base, -compensate)
         IN IF ValidDate(new_year, new_month, date_base.day)
            THEN Date(new_year, new_month, date_base.day)
            ELSE time_delta_compensate_short(base, new_year, new_month, compensate + 1)

RECURSIVE time_delta_compensate(_, _, _, _)
time_delta_compensate(base, new_year, new_month, compensate) ==
    IF compensate > 3 THEN Raise("Exception")
    ELSE LET date_base == AddDays(base, -compensate)
         IN IF ValidDate(new_year, new_month, date_base.day)
            THEN Date(new_year, new_month, date_base.day)
            ELSE time_delta_compensate(base, new_year, new_month, compensate + 1)

\* re.match(r"\+(\d+)([dwmy])", delta_str.lower())
time_delta_match(text) ==
    /\ Len(text) >= 1
    /\ text[1].k = "delta"
    /\ text[1].sign = "+"
    /\ Lower(text[1].u) \in {"d", "w", "m", "y"}

time_delta(base, text) ==
    IF ~time_delta_match(text) THEN Raise("ValueError")
    ELSE IF base = None THEN Raise("AssertionError")
    ELSE LET number == text[1].v
             unit_char == Lower(text[1].u)
         IN IF unit_char = "d" THEN AddDays(base, number)
            ELSE IF unit_char = "w" THEN AddDays(base, 7 * number)
            ELSE LET ny == IF unit_char = "m" THEN (number \div 12) + base.year
                           ELSE number + base.year
                     nm == IF unit_char = "m" THEN (number % 12) + base.month
                           ELSE base.month
                 IN IF nm > 12
                    THEN time_delta_compensate(base, ny + 1, nm - 12, 0)
                    ELSE time_delta_compensate(base, ny, nm, 0)

\* the end of last year, the anchor both parsers use when given none
EndOfLastYear == AddDays(Date(today.year, 1, 1), -1)

RECURSIVE TryFormats(_, _, _)
TryFormats(text, i, failure) ==
    IF i > Len(format_strs) THEN failure
    ELSE LET r == Strptime(text, format_strs[i])
         IN IF IsDate(r) THEN r ELSE TryFormats(text, i + 1, failure)

\* date_str.strip().startswith("+")
StartsWithPlus(text) == Len(text) >= 1 /\ text[1].k = "delta" /\ text[1].sign = "+"

FebTwentyNine == <<Mon(2), Num(29, 2)>>

\* EventTime.parse_date moving a date written with its year forward past the anchor,
\* as it does a date written without
EventTime_parse_date_forward(text, last_date_in) ==
    LET last_date == IF last_date_in = None THEN EndOfLastYear ELSE last_date_in
        md == Strptime(text, <<"%b", "%d">>)
        full == TryFormats(text, 1, Raise("ValueError"))
    IN IF StartsWithPlus(text) THEN time_delta(last_date, text)
       ELSE IF IsDate(md) THEN EventTime_next_month_day(last_date, md.month, md.day)
       ELSE IF text = FebTwentyNine THEN EventTime_next_month_day(last_date, 2, 29)
       ELSE IF IsDate(full) THEN EventTime_next_month_day(last_date, full.month, full.day)
       ELSE full

EventTime_parse_date(text, last_date_in) ==
    LET last_date == IF last_date_in = None THEN EndOfLastYear ELSE last_date_in
        md == Strptime(text, <<"%b", "%d">>)
    IN IF StartsWithPlus(text) THEN time_delta(last_date, text)
       ELSE IF IsDate(md) THEN EventTime_next_month_day(last_date, md.month, md.day)
       ELSE IF text = FebTwentyNine THEN EventTime_next_month_day(last_date, 2, 29)
       ELSE TryFormats(text, 1, Raise("ValueError"))

\* ------------------------------------------------------------------ date_utils.py

RECURSIVE next_month_day_from(_, _, _, _)
next_month_day_from(since, month, day, year) ==
    IF ValidDate(year, month, day) /\ DateLE(since, Date(year, month, day))
    THEN Date(year, month, day)
    ELSE next_month_day_from(since, month, day, year + 1)

next_month_day(since, month, day) ==
    next_month_day_from(since, month, day, since.year)

RECURSIVE parse_delta_compensate(_, _, _, _, _)
parse_delta_compensate(base, sign, new_year, new_month, compensate) ==
    IF compensate > 3 THEN None
    ELSE LET date_base == AddDays(base, (-compensate) * sign)
         IN IF ValidDate(new_year, new_month, date_base.day)
            THEN Date(new_year, new_month, date_base.day)
            ELSE parse_delta_compensate(base, sign, new_year, new_month, compensate + 1)

_parse_delta(base, sign, number, unit) ==
    IF ~IsDate(base) THEN (IF IsRaise(base) THEN base
                           ELSE IF unit \in {"d", "w"} THEN Raise("TypeError")
                           ELSE Raise("AttributeError"))
    ELSE IF unit = "d" THEN AddDays(base, number * sign)
    ELSE IF unit = "w" THEN AddDays(base, 7 * number * sign)
    ELSE LET ny == IF unit = "m" THEN (number \div 12) + base.year
                   ELSE number + base.year
             nm == IF unit = "m" THEN (number % 12) + base.month
                   ELSE base.month
         IN IF nm > 12
            THEN parse_delta_compensate(base, sign, ny + 1, nm - 12, 0)
            ELSE parse_delta_compensate(base, sign, ny, nm, 0)

\* one match of r"([+-])(\d+)([dwmy])+" in delta_str.lower()
IsDeltaToken(tok) ==
    tok.k = "delta" /\ tok.sign \in {"+", "-"} /\ Lower(tok.u) \in {"d", "w", "m", "y"}

\* re.findall over the text: its delta components in order of appearance
RECURSIVE DeltaMatches(_)
DeltaMatches(text) ==
    IF text = <<>> THEN <<>>
    ELSE IF IsDeltaToken(Head(text)) THEN <<Head(text)>> \o DeltaMatches(Tail(text))
    ELSE DeltaMatches(Tail(text))

RECURSIVE parse_delta_apply(_, _)
parse_delta_apply(date, matches) ==
    IF matches = <<>> THEN date
    ELSE LET parts == Head(matches)
             sign == IF parts.sign = "-" THEN -1 ELSE 1
         IN parse_delta_apply(_parse_delta(date, sign, parts.v, Lower(parts.u)),
                              Tail(matches))

parse_delta(base, text) ==
    IF ~(Len(text) >= 1 /\ IsDeltaToken(text[1])) THEN None
    ELSE parse_delta_apply(IF base = None THEN today ELSE base, DeltaMatches(text))

parse_date(last_date_in, text) ==
    LET last_date == IF last_date_in = None THEN EndOfLastYear ELSE last_date_in
        md == Strptime(text, <<"%b", "%d">>)
    IN IF IsDate(md) THEN next_month_day(last_date, md.month, md.day)
       ELSE IF text = FebTwentyNine THEN next_month_day(last_date, 2, 29)
       ELSE TryFormats(text, 1, None)

parse_date_str(text, last_date) ==
    LET delta == parse_delta(last_date, text)
    IN IF delta # None THEN delta
       ELSE LET date == parse_date(last_date, text)
            IN IF date # None THEN date ELSE Raise("ValueError")

\* ------------------------------------------------------------------ filter.py: FilterCond

\* x in s, for a Python list s
InList(x, s) == \E i \in 1..Len(s) : s[i] = x

\* re.match("(!)?([#@])?(.*)", cond) and the literal rebuilt from its groups
_normalize_cond(cond) ==
    LET neg == IF Len(cond) >= 1 /\ cond[1] = "!" THEN <<"!">> ELSE <<>>
        rest == SubSeq(cond, Len(neg) + 1, Len(cond))
        t == IF Len(rest) >= 1 /\ rest[1] \in {"#", "@"} THEN <<rest[1]>> ELSE <<>>
        tag == SubSeq(rest, Len(t) + 1, Len(rest))
    IN IF tag = <<>> THEN <<>>          \* assert tag: AssertionError
       ELSE neg \o (IF t = <<>> THEN <<"#">> ELSE t) \o tag

\* FilterCond.__init__: conds is a list of lists of literals, or None
FilterCond(conds) ==
    LET given == IF conds.type = "None" THEN <<>> ELSE conds.v
        normal == [i \in 1..Len(given) |->
                     [j \in 1..Len(given[i]) |-> _normalize_cond(given[i][j])]]
    IN IF \E i \in 1..Len(given) : \E j \in 1..Len(given[i]) : normal[i][j] = <<>>
       THEN [tag |-> "AssertionError", conds |-> <<>>, raw |-> conds]
       ELSE [tag |-> "FilterCond", conds |-> normal, raw |-> conds]

\* FilterCond._filter_cond with the loop inverted
RECURSIVE _filter_cond_inverted(_, _)
_filter_cond_inverted(cond, tags) ==
    IF cond = <<>> THEN TRUE
    ELSE LET c == Head(cond)
             neg == c[1] = "!"
             tag == IF neg THEN Tail(c) ELSE c
         IN IF InList(tag, tags) # neg THEN FALSE
            ELSE _filter_cond_inverted(Tail(cond), tags)

RECURSIVE _filter_cond(_, _)
_filter_cond(cond, tags) ==
    IF cond = <<>> THEN TRUE
    ELSE LET c == Head(cond)
             neg == c[1] = "!"
             tag == IF neg THEN Tail(c) ELSE c
         IN IF InList(tag, tags) = neg THEN FALSE
            ELSE _filter_cond(Tail(cond), tags)

RECURSIVE FilterCond_filter_from(_, _)
FilterCond_filter_from(conds, tags) ==
    IF conds = <<>> THEN FALSE
    ELSE IF _filter_cond(Head(conds), tags) THEN TRUE
    ELSE FilterCond_filter_from(Tail(conds), tags)

FilterCond_filter(self, tags) ==
    IF self.conds = <<>> THEN TRUE ELSE FilterCond_filter_from(self.conds, tags)

\* ------------------------------------------------------------------ event.py: Event, EventDB

NoTime == [tag |-> "None", start |-> None, end |-> None, date |-> None]
TimeRaise(e) == [tag |-> e, start |-> None, end |-> None, date |-> None]

\* EventTime.__init__; time is a str, a dict or a value of another type
EventTime(time, last_date) ==
    IF time.type = "str"
    THEN LET date == EventTime_parse_date(time.v, last_date)
         IN IF IsRaise(date) THEN TimeRaise(date.tag)
            ELSE [tag |-> "EventTime", start |-> None, end |-> None, date |-> date]
    ELSE IF time.type = "dict"
    THEN LET start == IF "start" \in DOMAIN time.v
                      THEN EventTime_parse_date(time.v.start, last_date)
                      ELSE IF last_date = None THEN Raise("AssertionError")
                      ELSE last_date
         IN IF IsRaise(start) THEN TimeRaise(start.tag)
            ELSE IF "end" \notin DOMAIN time.v THEN TimeRaise("AssertionError")
            ELSE LET end == EventTime_parse_date(time.v.end, start)
                 IN IF IsRaise(end) THEN TimeRaise(end.tag)
                    ELSE [tag |-> "EventTime", start |-> start, end |-> end,
                          date |-> None]
    ELSE TimeRaise("TypeError")

isPeriod(self) == self.start # None
isTime(self) == self.date # None
\* getStartTime answering with the end of a period
getStartTime_end(self) == IF isPeriod(self) THEN self.end ELSE self.date
getStartTime(self) == IF isPeriod(self) THEN self.start ELSE self.date
\* getEndTime answering with the start of a period
getEndTime_start(self) == IF isPeriod(self) THEN self.start ELSE self.date
getEndTime(self) == IF isPeriod(self) THEN self.end ELSE self.date

\* the index of the last c in s, 0 when there is none
LastIndexOf(s, c) ==
    IF \E i \in 1..Len(s) : s[i] = c
    THEN CHOOSE i \in 1..Len(s) : s[i] = c /\ \A j \in (i + 1)..Len(s) : s[j] # c
    ELSE 0
\* os.path.basename(file)
basename(file) == SubSeq(file, LastIndexOf(file, "/") + 1, Len(file))
\* os.path.splitext(name)[0]: cut at the last dot, leading dots apart
splitext_root(name) ==
    LET dot == LastIndexOf(name, ".")
    IN IF dot > 0 /\ \E j \in 1..(dot - 1) : name[j] # "."
       THEN SubSeq(name, 1, dot - 1)
       ELSE name

EventRaise(e) ==
    [tag |-> e, name |-> <<>>, description |-> <<>>, tags |-> <<>>, file |-> <<>>,
     time |-> NoTime]

\* Event.__init__
Event(raw_event, file, last_date) ==
    IF "name" \notin DOMAIN raw_event THEN EventRaise("AssertionError")
    ELSE IF "time" \notin DOMAIN raw_event THEN EventRaise("AssertionError")
    ELSE LET time == EventTime(raw_event.time, last_date)
             explicit == IF "tags" \in DOMAIN raw_event
                         THEN [i \in 1..Len(raw_event.tags) |-> <<"#">> \o raw_event.tags[i]]
                         ELSE <<>>
         IN IF time.tag # "EventTime" THEN EventRaise(time.tag)
            ELSE [tag |-> "Event",
                  name |-> raw_event.name,
                  description |-> IF "description" \in DOMAIN raw_event
                                  THEN raw_event.description ELSE <<>>,
                  tags |-> Append(explicit, <<"@">> \o splitext_root(basename(file))),
                  file |-> file,
                  time |-> time]

\* list(set(self.tags).intersection(set(tags))), as the set it lists
Event_filter_tags(self, tags) ==
    {t \in {self.tags[i] : i \in 1..Len(self.tags)} : InList(t, tags)}

\* the loop of EventDB.parse: the collection and the exception that ended the loop
RECURSIVE parse_loop(_, _, _, _)
parse_loop(raw, path, last_date, collected) ==
    IF raw = <<>> THEN [events |-> collected, raised |-> "None"]
    ELSE The({ IF event.tag # "Event"
               THEN [events |-> collected, raised |-> event.tag]
               ELSE parse_loop(Tail(raw), path, getEndTime(event.time),
                               Append(collected, event))
               : event \in {Event(Head(raw), path, last_date)} })

\* EventDB.filter_tags(tags): the events sharing a tag with the list, reversed
RECURSIVE EventDB_filter_tags_reversed(_, _)
EventDB_filter_tags_reversed(evs, tags) ==
    IF evs = <<>> THEN <<>>
    ELSE IF Event_filter_tags(Head(evs), tags) # {}
    THEN Append(EventDB_filter_tags_reversed(Tail(evs), tags), Head(evs))
    ELSE EventDB_filter_tags_reversed(Tail(evs), tags)

\* EventDB.filter_tags(tags): [e for e in self.events if e.filter_tags(tags)]
RECURSIVE EventDB_filter_tags(_, _)
EventDB_filter_tags(evs, tags) ==
    IF evs = <<>> THEN <<>>
    ELSE IF Event_filter_tags(Head(evs), tags) # {}
    THEN <<Head(evs)>> \o EventDB_filter_tags(Tail(evs), tags)
    ELSE EventDB_filter_tags(Tail(evs), tags)

\* EventTime.overlaps(windowStart, windowEnd)
overlaps(self, windowStart, windowEnd) ==
    /\ DateLT(getStartTime(self), windowEnd)
    /\ DateLE(windowStart, getEndTime(self))

\* EventCollection.filter(tagFilter, windowStart, windowEnd): the tag filter when one is
\* given, then the window when both bounds are given, in collection order
RECURSIVE EventDB_filter(_, _, _, _)
EventDB_filter(evs, tagFilter, windowStart, windowEnd) ==
    IF evs = <<>> THEN <<>>
    ELSE LET e == Head(evs)
             keep == /\ tagFilter.tag = "None" \/ FilterCond_filter(tagFilter, e.tags)
                     /\ \/ windowStart = None
                        \/ windowEnd = None
                        \/ overlaps(e.time, windowStart, windowEnd)
         IN (IF keep THEN <<e>> ELSE <<>>)
            \o EventDB_filter(Tail(evs), tagFilter, windowStart, windowEnd)

\* ------------------------------------------------------------------ config.py: Config, ConfigDB

ConfigRaise(e) ==
    [tag |-> e, start |-> None, end |-> None, path |-> <<>>,
     filter |-> [tag |-> "None", conds |-> <<>>, raw |-> [type |-> "None", v |-> <<>>]],
     attrs |-> <<>>]

\* Config.__init__: the keys of the record that name no attribute set before become
\* attributes of their own
Config(raw_config, path) ==
    IF "start" \notin DOMAIN raw_config THEN ConfigRaise("KeyError")
    ELSE The({
        IF IsRaise(start) THEN ConfigRaise(start.tag)
        ELSE IF "end" \notin DOMAIN raw_config THEN ConfigRaise("KeyError")
        ELSE The({
            IF IsRaise(end) THEN ConfigRaise(end.tag)
            ELSE LET filter == FilterCond(IF "filter" \in DOMAIN raw_config
                                          THEN [type |-> "list", v |-> raw_config.filter]
                                          ELSE [type |-> "None", v |-> <<>>])
                 IN IF filter.tag # "FilterCond" THEN ConfigRaise(filter.tag)
                    ELSE [tag |-> "Config", start |-> start, end |-> end,
                          path |-> path, filter |-> filter,
                          attrs |-> [key \in DOMAIN raw_config
                                                \ {"start", "end", "path", "filter"}
                                       |-> raw_config[key]]]
            : end \in {parse_date_str(raw_config.end, start)} })
        : start \in {parse_date_str(raw_config.start, None)} })

\* the loop of ConfigDB.load: the configs and the exception that ended the loop
RECURSIVE load_loop(_, _, _)
load_loop(raw, path, collected) ==
    IF raw = <<>> THEN [configs |-> collected, raised |-> "None"]
    ELSE The({ IF c.tag # "Config"
               THEN [configs |-> collected, raised |-> c.tag]
               ELSE load_loop(Tail(raw), path, Append(collected, c))
               : c \in {Config(Head(raw), path)} })

\* ------------------------------------------------------------------ inputs

Todays == {Date(2023, 6, 15), Date(2024, 12, 31)}

Anchors ==
    {None, Date(2023, 1, 31), Date(2023, 3, 30), Date(2023, 5, 4), Date(2023, 12, 31),
     Date(2024, 2, 29), Date(2000, 1, 1), Date(2001, 1, 1)}

\* "<Mon> <Day>"
MonthDayTexts ==
    {<<Mon(1), Num(1, 1)>>, <<Mon(5), Num(4, 1)>>, <<Mon(5), Num(9, 2)>>,
     <<Mon(2), Num(28, 2)>>, FebTwentyNine, <<Mon(12), Num(31, 2)>>}

\* "May 4, 2023", "05/04/2023", "2023 May 4", "2023/05/04" and the like
YearTexts ==
    {<<Mon(5), Num(4, 1), Num(2023, 4)>>, <<Num(5, 2), Num(4, 2), Num(2023, 4)>>,
     <<Num(2023, 4), Mon(5), Num(4, 1)>>, <<Num(2023, 4), Num(5, 2), Num(4, 2)>>,
     <<Mon(2), Num(29, 2), Num(2024, 4)>>, <<Num(12, 2), Num(31, 2), Num(2023, 4)>>,
     <<Num(2020, 4), Num(1, 1), Num(1, 1)>>}

\* texts no form accepts: "99", "Feb 30", "Feb 29 2023"
BadTexts ==
    {<<Num(99, 2)>>, <<Mon(2), Num(30, 2)>>, <<Mon(2), Num(29, 2), Num(2023, 4)>>}

\* "+<n>d", "-<n>m", ..., "+2w+3d", "+1m-1d", "+1M"
DeltaTexts ==
    {<<Delta(s, n, u)>> : s \in {"+", "-"}, n \in 0..MaxDelta, u \in {"d", "w", "m", "y"}}
    \cup {<<Delta("+", 2, "w"), Delta("+", 3, "d")>>,
          <<Delta("+", 1, "m"), Delta("-", 1, "d")>>,
          <<Delta("+", 1, "M")>>}

DateTexts == MonthDayTexts \cup YearTexts \cup BadTexts \cup DeltaTexts

Str(text) == [type |-> "str", v |-> text]
Dict(d) == [type |-> "dict", v |-> d]

JanFirst == <<Mon(1), Num(1, 1)>>
MayFourth == <<Mon(5), Num(4, 1)>>
MayFourth2023 == <<Mon(5), Num(4, 1), Num(2023, 4)>>
PlusTwoWeeks == <<Delta("+", 2, "w")>>

\* events files: "ev/w.yaml" and "h.yml", written with one letter per extension
WorkFile == <<"e", "v", "/", "w", ".", "y">>
HomeFile == <<"h", ".", "y">>

\* the events files a run may load: path and decoded content
SourceFiles ==
    { \* the instant "Jan 1" followed by "+2w"
      [path |-> WorkFile,
       raw |-> << [name |-> <<"a">>, time |-> Str(JanFirst)],
                  [name |-> <<"b">>, time |-> Str(PlusTwoWeeks)] >>],
      \* a period followed by a relative instant
      [path |-> HomeFile,
       raw |-> << [name |-> <<"c">>, tags |-> << <<"x">> >>,
                   time |-> Dict([start |-> MayFourth, end |-> <<Mon(5), Num(9, 1)>>])],
                  [name |-> <<"d">>, time |-> Str(PlusTwoWeeks)] >>],
      \* a period that ends where it starts
      [path |-> WorkFile,
       raw |-> << [name |-> <<"e">>,
                   time |-> Dict([start |-> MayFourth2023,
                                  end |-> <<Delta("+", 0, "d")>>])] >>],
      \* a period that ends before it starts
      [path |-> HomeFile,
       raw |-> << [name |-> <<"f">>,
                   time |-> Dict([start |-> <<Mon(5), Num(9, 1), Num(2023, 4)>>,
                                  end |-> <<Num(5, 2), Num(4, 2), Num(2023, 4)>>])] >>],
      \* a full date, then a period that starts at the previous event's end
      [path |-> WorkFile,
       raw |-> << [name |-> <<"g">>, description |-> <<"G">>,
                   tags |-> << <<"x">>, <<"y">> >>, time |-> Str(MayFourth2023)],
                  [name |-> <<"h">>, time |-> Dict([end |-> <<Delta("+", 1, "m")>>])] >>],
      \* the second record has no name
      [path |-> HomeFile,
       raw |-> << [name |-> <<"i">>, tags |-> << <<"y">> >>, time |-> Str(JanFirst)],
                  [time |-> Str(MayFourth)] >>],
      \* the second record has no time
      [path |-> WorkFile,
       raw |-> << [name |-> <<"j">>, time |-> Str(MayFourth)],
                  [name |-> <<"k">>] >>],
      \* the second record's date is unparsable
      [path |-> HomeFile,
       raw |-> << [name |-> <<"l">>, time |-> Str(JanFirst)],
                  [name |-> <<"m">>, time |-> Str(<<Num(99, 2)>>)] >>],
      \* a period without start as the first record: no anchor
      [path |-> WorkFile,
       raw |-> << [name |-> <<"n">>, time |-> Dict([end |-> <<Delta("+", 1, "m")>>])] >>],
      \* a time that is neither a text nor a mapping
      [path |-> HomeFile,
       raw |-> << [name |-> <<"o">>, time |-> [type |-> "int", v |-> <<>>]] >>],
      \* a file with no events
      [path |-> HomeFile, raw |-> <<>>] }

NoneConds == [type |-> "None", v |-> <<>>]
Conds(c) == [type |-> "list", v |-> c]

\* the tag filters and windows of the filter calls on the collection
TagFilters ==
    {[tag |-> "None", conds |-> <<>>, raw |-> NoneConds],
     FilterCond(Conds(<< << <<"@", "w">> >> >>)),
     FilterCond(Conds(<< << <<"x">>, <<"!", "y">> >>, << <<"@", "h">> >> >>))}
Windows ==
    {[start |-> None, end |-> None],
     [start |-> Date(2023, 1, 1), end |-> Date(2023, 5, 4)]}
\* the tag lists of the filter_tags calls
TagLists ==
    {[type |-> "list", v |-> <<>>],
     [type |-> "list", v |-> << <<"@", "w">> >>],
     [type |-> "list", v |-> << <<"#", "x">>, <<"@", "h">> >>],
     [type |-> "None", v |-> <<>>]}

\* the config files a run may load: path and decoded content
ConfigFile == <<"c", ".", "y">>
ConfigFiles ==
    { \* a window from a full date to a relative end
      << [name |-> <<"p">>, start |-> MayFourth2023, end |-> <<Delta("+", 2, "w")>>,
          filter |-> << << <<"x">>, <<"!", "y">> >> >>] >>,
      \* a window that ends on the month and day it starts on
      << [name |-> <<"q">>, start |-> MayFourth2023, end |-> MayFourth] >>,
      \* a window of no days, and one that runs backwards
      << [name |-> <<"r">>, start |-> JanFirst, end |-> <<Delta("+", 0, "d")>>] >>,
      << [name |-> <<"s">>, start |-> MayFourth, end |-> <<Delta("-", 1, "w")>>] >>,
      \* two configs, the second with an unparsable end
      << [name |-> <<"t">>, start |-> <<Delta("+", 1, "m")>>, end |-> JanFirst,
          filename |-> <<"o">>],
         [name |-> <<"u">>, start |-> JanFirst, end |-> <<Num(99, 2)>>] >>,
      \* a filter literal without a tag name, and a config without start
      << [name |-> <<"v">>, start |-> JanFirst, end |-> MayFourth,
          filter |-> << << <<"!">> >> >>] >>,
      << [name |-> <<"w">>, end |-> MayFourth] >>,
      << [name |-> <<"x">>, start |-> <<Num(2023, 4), Num(5, 2), Num(4, 2)>>,
          end |-> <<Num(2023, 4), Mon(5), Num(4, 1)>>] >>,
      <<>> }

\* the filters a run may construct: FilterCond(None), FilterCond([]), [["#a", "!#b"]], ...
\* "2023 05 <dd>", a day of May 2023 in the layout %Y %m %d
DayText(d) == <<Num(2023, 4), Num(5, 2), Num(d, 2)>>
\* the event times of the overlaps calls: every instant and every period, start and
\* end in either order, that EventTime builds from two such texts
EventTimes ==
    {EventTime(Str(DayText(d)), None) : d \in 1..MaxDay}
        \cup {EventTime(Dict([start |-> DayText(s), end |-> DayText(e)]), None) :
                 s \in 1..MaxDay, e \in 1..MaxDay}
\* the windows of the overlaps calls: windowStart < windowEnd
OverlapWindows ==
    {w \in {[start |-> Date(2023, 5, s), end |-> Date(2023, 5, e)] :
               s \in 1..MaxDay, e \in 1..MaxDay} : DateLT(w.start, w.end)}

RawConds ==
    {NoneConds, Conds(<<>>),
     Conds(<< << <<"#", "a">>, <<"!", "#", "b">> >> >>),
     Conds(<< << <<"a">> >>, << <<"!", "b">> >> >>),
     Conds(<< << <<"@", "w">>, <<"b">> >>, << <<"!", "@", "w">>, <<"!", "a">> >> >>),
     Conds(<< << <<"a">>, <<"!", "a">> >> >>),
     Conds(<< <<>> >>),
     Conds(<< << <<"!", "!", "a">> >> >>),
     Conds(<< << <<"a">>, <<"!">> >> >>),
     Conds(<< << <<"#">> >> >>)}
\* the tag lists a filter is asked about
EventTagLists ==
    {<<>>, << <<"#", "a">> >>, << <<"#", "b">> >>, << <<"@", "w">> >>,
     << <<"#", "a">>, <<"#", "b">> >>, << <<"#", "a">>, <<"@", "w">> >>,
     << <<"#", "b">>, <<"@", "w">> >>, << <<"#", "a">>, <<"#", "b">>, <<"@", "w">> >>,
     << <<"a">> >>, << <<"#", "!", "a">>, <<"@", "h">> >>}

\* ------------------------------------------------------------------ defaults

NoCall == [text |-> <<>>, anchor |-> None, ev |-> None, du |-> None, done |-> FALSE]
NoLoad == [path |-> <<>>, raw |-> <<>>, before |-> <<>>, raised |-> "None"]
NoResult == [query |-> "none", of |-> <<>>, out |-> <<>>, raised |-> "None"]
NoFilter == [tag |-> "None", conds |-> <<>>, raw |-> NoneConds]
NoFilterCall == [tags |-> <<>>, out |-> FALSE, done |-> FALSE]
NoOverlap == [et |-> NoTime, start |-> None, end |-> None, out |-> FALSE, done |-> FALSE]

EventDBIdle ==
    /\ files = <<>> /\ events = <<>>
    /\ lastCall = NoLoad /\ result = NoResult
ConfigDBIdle == cfiles = <<>> /\ configs = <<>> /\ craised = "None"
FilterIdle == fcond = NoFilter /\ fcall = NoFilterCall
OverlapIdle == ocall = NoOverlap

eventDBVars == <<files, events, lastCall, result>>
configDBVars == <<cfiles, configs, craised>>
filterVars == <<fcond, fcall>>

\* ------------------------------------------------------------------ the date parsers

\* One date text, parsed against one anchor after the other by both parsers of the
\* program: EventTime.parse_date (events) and date_utils.parse_date_str (configs).
ParseDate(anchor) ==
    /\ call' = [text |-> call.text, anchor |-> anchor,
                ev |-> EventTime_parse_date(call.text, anchor),
                du |-> parse_date_str(call.text, anchor),
                done |-> TRUE]
    /\ UNCHANGED <<today, eventDBVars, configDBVars, filterVars, ocall>>

InitDate ==
    /\ today \in Todays
    /\ call \in {[NoCall EXCEPT !.text = t] : t \in DateTexts}
    /\ EventDBIdle /\ ConfigDBIdle /\ FilterIdle /\ OverlapIdle

NextDate == \E anchor \in Anchors : ParseDate(anchor)

SpecDate == InitDate /\ [][NextDate]_vars

\* ------------------------------------------------------------------ EventDB

\* EventDB.parse(path) on a file whose decoded content is raw
Parse(path, raw) ==
    /\ Len(files) < MaxLoads
    /\ files' = Append(files, path)
    /\ \E r \in {parse_loop(raw, path, None, events)} :
          /\ events' = r.events
          /\ lastCall' = [path |-> path, raw |-> raw, before |-> events,
                          raised |-> r.raised]
    /\ UNCHANGED <<today, result, configDBVars, call, filterVars, ocall>>

\* EventDB.filter_tags(tags); Event.filter_tags asserts that tags is a list
FilterTags(tags) ==
    /\ result' = IF tags.type # "list" /\ events # <<>>
                 THEN [query |-> "filter_tags", of |-> events, out |-> <<>>,
                       raised |-> "AssertionError"]
                 ELSE [query |-> "filter_tags", of |-> events,
                       out |-> EventDB_filter_tags(events, tags.v),
                       raised |-> "None"]
    /\ UNCHANGED <<today, files, events, lastCall, configDBVars, call, filterVars, ocall>>

\* eventDB.filter(tagFilter, windowStart, windowEnd)
Filter(tagFilter, window) ==
    /\ result' = [query |-> IF tagFilter.tag = "None" /\ window.start = None
                            THEN "filter_all" ELSE "filter",
                  of |-> events,
                  out |-> EventDB_filter(events, tagFilter, window.start, window.end),
                  raised |-> "None"]
    /\ UNCHANGED <<today, files, events, lastCall, configDBVars, call, filterVars, ocall>>

Init ==
    /\ today \in Todays
    /\ EventDBIdle /\ ConfigDBIdle /\ FilterIdle /\ OverlapIdle
    /\ call = NoCall

Next ==
    \/ \E f \in SourceFiles : Parse(f.path, f.raw)
    \/ \E tags \in TagLists : FilterTags(tags)
    \/ \E tf \in TagFilters, w \in Windows : Filter(tf, w)

Spec == Init /\ [][Next]_vars

\* ------------------------------------------------------------------ ConfigDB

\* ConfigDB.load(path) on a file whose decoded content is raw
Load(path, raw) ==
    /\ Len(cfiles) < MaxConfigLoads
    /\ cfiles' = Append(cfiles, path)
    /\ \E r \in {load_loop(raw, path, configs)} :
          /\ configs' = r.configs
          /\ craised' = r.raised
    /\ UNCHANGED <<today, eventDBVars, call, filterVars, ocall>>

NextConfig == \E raw \in ConfigFiles : Load(ConfigFile, raw)

SpecConfig == Init /\ [][NextConfig]_vars

\* ------------------------------------------------------------------ FilterCond

\* FilterCond(conds)
Construct(conds) ==
    /\ fcond' = FilterCond(conds)
    /\ fcall' = NoFilterCall
    /\ UNCHANGED <<today, eventDBVars, configDBVars, call, ocall>>

\* self.filter(tags) on the filter constructed last
FilterCall(tags) ==
    /\ fcond.tag = "FilterCond"
    /\ fcall' = [tags |-> tags, out |-> FilterCond_filter(fcond, tags), done |-> TRUE]
    /\ UNCHANGED <<today, eventDBVars, configDBVars, call, fcond, ocall>>

NextFilter ==
    \/ \E conds \in RawConds : Construct(conds)
    \/ \E tags \in EventTagLists : FilterCall(tags)

SpecFilter == Init /\ [][NextFilter]_vars

\* ------------------------------------------------------------------ EventTime.overlaps

\* self.overlaps(windowStart, windowEnd) on one event time, window after window
Overlaps(window) ==
    /\ ocall' = [et |-> ocall.et, start |-> window.start, end |-> window.end,
                 out |-> overlaps(ocall.et, window.start, window.end), done |-> TRUE]
    /\ UNCHANGED <<today, eventDBVars, configDBVars, call, filterVars>>

InitOverlap ==
    /\ today \in Todays
    /\ EventDBIdle /\ ConfigDBIdle /\ FilterIdle
    /\ call = NoCall
    /\ ocall \in {[NoOverlap EXCEPT !.et = et] : et \in EventTimes}

NextOverlap == \E window \in OverlapWindows : Overlaps(window)

SpecOverlap == InitOverlap /\ [][NextOverlap]_vars

\* ================================================================== claims

\* C1 (as claimed): when EventDB.parse failed, the collection's event list is exactly
\* what it was before the call.
C1_FailedParseLeavesEvents ==
    lastCall.raised # "None" => events = lastCall.before

\* C2 (as claimed): every period EventTime in the collection starts strictly before
\* it ends.
C2_PeriodStartsBeforeEnd ==
    \A i \in 1..Len(events) :
        isPeriod(events[i].time) => DateLT(events[i].time.start, events[i].time.end)

\* C3 (as claimed): every Config a load constructed has start < end.
C3_ConfigWindowNotEmpty ==
    \A i \in 1..Len(configs) : DateLT(configs[i].start, configs[i].end)

\* "<Mon> <Day>" with the year omitted: a month name and a day that month can have
IsMonthDayOnly(text) ==
    /\ Len(text) = 2
    /\ text[1].k = "mon" /\ text[1].v \in 1..12
    /\ text[2].k = "num" /\ text[2].w <= 2
    /\ text[2].v \in 1..DaysInMonth(2000, text[1].v)

\* C4 (as claimed): for every month/day-only text and every non-null anchor A, both
\* EventTime.parse_date and date_utils.parse_date_str return a date strictly after A.
C4_MonthDayStrictlyAfterAnchor ==
    (call.done /\ IsMonthDayOnly(call.text) /\ call.anchor # None)
        => /\ IsDate(call.ev) /\ DateLT(call.anchor, call.ev)
           /\ IsDate(call.du) /\ DateLT(call.anchor, call.du)

\* the end bound of an event time: the end of a period, the date of an instant
EndBound(t) == IF t.start # None THEN t.end ELSE t.date

\* the raw time is this text
IsText(time, text) == time.type = "str" /\ time.v = text

\* the events the last parse call appended
Appended == Len(events) - Len(lastCall.before)

\* C5: in a parse call the time of the first event is built with a null anchor and
\* the time of event i with the end bound of event i-1 of that call; an instant "+2w"
\* that follows an instant lies exactly 14 days after it.
C5_AnchorIsPreviousEnd ==
    /\ SubSeq(events, 1, Len(lastCall.before)) = lastCall.before
    /\ \A i \in 1..Appended :
        LET n == Len(lastCall.before) + i
        IN /\ events[n].time =
                 EventTime(lastCall.raw[i].time,
                           IF i = 1 THEN None ELSE EndBound(events[n - 1].time))
           /\ (i > 1 /\ IsText(lastCall.raw[i].time, PlusTwoWeeks)
                     /\ events[n - 1].time.date # None)
                 => ToOrdinal(events[n].time.date)
                      = ToOrdinal(events[n - 1].time.date) + 14

\* C5 witness: a second parse call appended "Jan 1" and "+2w" after a call whose last
\* event ends later: the first resolved against no anchor, the second 14 days on.
C5_Witness ==
    /\ lastCall.before # <<>> /\ Appended = 2
    /\ IsText(lastCall.raw[2].time, PlusTwoWeeks)
    /\ LET n == Len(lastCall.before)
       IN /\ DateLT(Date(today.year, 1, 1), EndBound(events[n].time))
          /\ events[n + 1].time.date = Date(today.year, 1, 1)
          /\ events[n + 2].time.date = Date(today.year, 1, 15)

\* C5 witness of the period case: a relative instant after a period counts from the
\* period's end.
C5_WitnessPeriod ==
    /\ Appended = 2
    /\ isPeriod(events[Len(events) - 1].time)
    /\ IsText(lastCall.raw[2].time, PlusTwoWeeks)
    /\ events[Len(events)].time.date = AddDays(events[Len(events) - 1].time.end, 14)

\* the set of a Python list's elements
Elems(s) == {s[i] : i \in 1..Len(s)}

\* the source identifier of an events file: its name without directory and extension
SourceId(path) == IF path = WorkFile THEN <<"w">> ELSE <<"h">>

\* C6 (as claimed): the tags of every event the last parse call appended are its
\* explicit tags prefixed "#", the track tag "@<sourceId>" and one kind tag, "#period"
\* or "#date".
C6_TagsAreExplicitTrackKind ==
    \A i \in 1..Appended :
        LET e == events[Len(lastCall.before) + i]
            r == lastCall.raw[i]
            explicit == IF "tags" \in DOMAIN r
                        THEN {<<"#">> \o r.tags[j] : j \in 1..Len(r.tags)} ELSE {}
            kind == IF isPeriod(e.time) THEN <<"#", "p", "e", "r", "i", "o", "d">>
                    ELSE <<"#", "d", "a", "t", "e">>
        IN Elems(e.tags) = explicit \cup {<<"@">> \o SourceId(lastCall.path)} \cup {kind}

\* a literal as written: negated when it starts with "!", its tag the rest with "#"
\* in front unless a sigil # or @ is written
RawNegated(lit) == Len(lit) >= 1 /\ lit[1] = "!"
RawTag(lit) ==
    LET body == IF RawNegated(lit) THEN Tail(lit) ELSE lit
    IN IF Len(body) >= 1 /\ body[1] \in {"#", "@"} THEN body ELSE <<"#">> \o body

\* OR of ANDs over the literals as written
Dnf(branches, tagSet) ==
    \/ branches = <<>>
    \/ \E i \in 1..Len(branches) :
         \A j \in 1..Len(branches[i]) :
            IF RawNegated(branches[i][j])
            THEN RawTag(branches[i][j]) \notin tagSet
            ELSE RawTag(branches[i][j]) \in tagSet

\* C7: FilterCond.filter(tags) is the DNF value of the filter on the tag set: true
\* with no branches, else true iff some branch has every literal satisfied, a plain
\* literal by its tag being present and a "!" literal by its tag being absent;
\* [["#a", "!#b"]] matches {"#a"} and not {"#a", "#b"}.
C7_FilterIsDnf ==
    fcall.done =>
        /\ fcall.out = Dnf(fcond.raw.v, Elems(fcall.tags))
        /\ (fcond.raw = Conds(<< << <<"#", "a">>, <<"!", "#", "b">> >> >>)
              /\ fcall.tags = << <<"#", "a">> >>) => fcall.out
        /\ (fcond.raw = Conds(<< << <<"#", "a">>, <<"!", "#", "b">> >> >>)
              /\ fcall.tags = << <<"#", "a">>, <<"#", "b">> >>) => ~fcall.out

\* C7 witness: [["#a", "!#b"]] was asked about {"#a", "#b"} and did not match.
C7_Witness ==
    /\ fcall.done /\ ~fcall.out
    /\ fcond.conds = << << <<"#", "a">>, <<"!", "#", "b">> >> >>
    /\ fcall.tags = << <<"#", "a">>, <<"#", "b">> >>

\* C7 witness: a filter with two branches matched by its second, negated, branch.
C7_WitnessSecondBranch ==
    /\ fcall.done /\ fcall.out
    /\ fcond.raw = Conds(<< << <<"a">> >>, << <<"!", "b">> >> >>)
    /\ fcall.tags = << <<"@", "w">> >>

\* a is b with some elements left out, the others in b's order
RECURSIVE IsSubseq(_, _)
IsSubseq(a, b) ==
    IF a = <<>> THEN TRUE
    ELSE IF b = <<>> THEN FALSE
    ELSE IF Head(a) = Head(b) THEN IsSubseq(Tail(a), Tail(b))
    ELSE IsSubseq(a, Tail(b))

C8_WitnessFilterTags ==
    /\ result.query = "filter_tags" /\ Len(result.out) = 2
    /\ result.out[1] # result.out[2]
    /\ Len(result.of) > 2

\* The year, month and day a text states in one of the four layouts with a year, as a
\* set: empty when the text is in none of them or states no calendar date.
StatedDates(text) ==
    IF Len(text) # 3 \/ \E i \in 1..3 : text[i].k \notin {"mon", "num"} THEN {}
    ELSE {x \in {Date(text[3].v, text[1].v, text[2].v),
                 Date(text[1].v, text[2].v, text[3].v)} :
            /\ ValidDate(x.year, x.month, x.day)
            /\ \/ /\ x = Date(text[3].v, text[1].v, text[2].v)
                  /\ text[3].k = "num" /\ text[3].w = 4
                  /\ text[2].k = "num" /\ text[2].w <= 2
                  /\ (text[1].k = "mon" \/ text[1].w <= 2)
               \/ /\ x = Date(text[1].v, text[2].v, text[3].v)
                  /\ text[1].k = "num" /\ text[1].w = 4
                  /\ text[3].k = "num" /\ text[3].w <= 2
                  /\ (text[2].k = "mon" \/ text[2].w <= 2)}
HasYear(text) == StatedDates(text) # {}

\* C9: for a valid absolute date text that states its year, two parses of the text
\* with different anchors (null or not) return the same date, in both parsers, and
\* that date is the one the text states.
C9_YearTextIgnoresAnchor ==
    [][(call.done /\ call'.done /\ HasYear(call.text))
        => /\ call'.ev = call.ev /\ call'.du = call.du
           /\ call'.ev \in StatedDates(call.text)
           /\ call'.du \in StatedDates(call.text)]_vars

\* C9 witness: a text with a year was parsed against a non-null anchor lying after
\* the date it states.
C9_Witness ==
    /\ call.done /\ HasYear(call.text)
    /\ call.anchor = Date(2024, 2, 29)
    /\ call.ev = Date(2023, 5, 4) /\ call.du = Date(2023, 5, 4)

\* The anchor moved forward by n whole months: the target month with the carry into
\* the following years, the anchor's day or the last day of the target month.
MonthsLater(anchor, n) ==
    LET total == (anchor.month - 1) + n
        ty == anchor.year + (total \div 12)
        tm == (total % 12) + 1
        last == DaysInMonth(ty, tm)
    IN Date(ty, tm, IF anchor.day <= last THEN anchor.day ELSE last)

IsAddMonthsOrYears(text) ==
    /\ Len(text) = 1 /\ text[1].k = "delta" /\ text[1].sign = "+"
    /\ Lower(text[1].u) \in {"m", "y"}

\* C10: "+<N>m" / "+<N>y" on a non-null anchor gives the date N months (12 N months)
\* later, with the anchor's day when the target month has it and the last day of the
\* target month otherwise; the compensation never fails.  Both parsers.
C10_AddMonthsClamps ==
    (call.done /\ IsAddMonthsOrYears(call.text) /\ call.anchor # None)
        => LET n == IF Lower(call.text[1].u) = "m" THEN call.text[1].v
                    ELSE 12 * call.text[1].v
           IN /\ call.ev = MonthsLater(call.anchor, n)
              /\ call.du = MonthsLater(call.anchor, n)

\* C10 witness: 2023-01-31 "+1m" gave 2023-02-28, after three days of compensation.
C10_Witness ==
    /\ call.done /\ call.text = <<Delta("+", 1, "m")>>
    /\ call.anchor = Date(2023, 1, 31)
    /\ call.ev = Date(2023, 2, 28) /\ call.du = Date(2023, 2, 28)

\* a text made of delta components only
IsDeltaText(text) ==
    /\ Len(text) >= 1
    /\ \A i \in 1..Len(text) :
         /\ text[i].k = "delta" /\ text[i].sign \in {"+", "-"}
         /\ Lower(text[i].u) \in {"d", "w", "m", "y"}

\* the running date moved by one signed component: forward for "+", backward for "-",
\* by days, weeks, months or years
Shifted(date, tok) ==
    LET n == IF tok.sign = "-" THEN -tok.v ELSE tok.v
        unit == Lower(tok.u)
    IN IF unit = "d" THEN AddDays(date, n)
       ELSE IF unit = "w" THEN AddDays(date, 7 * n)
       ELSE IF unit = "m" THEN MonthsLater(date, n)
       ELSE MonthsLater(date, 12 * n)

\* every component applied in order of appearance
RECURSIVE ShiftedByAll(_, _)
ShiftedByAll(date, text) ==
    IF text = <<>> THEN date
    ELSE ShiftedByAll(Shifted(date, Head(text)), Tail(text))

\* C11 (as claimed): a relative-delta text parsed against a non-null anchor gives the
\* anchor moved by every component in order, "-" components moving it backward for
\* every unit ("+2w+3d" is 17 days on, "-1m" one month back), in both parsers.
C11_DeltaAppliesEveryComponent ==
    (call.done /\ IsDeltaText(call.text) /\ call.anchor # None)
        => /\ call.ev = ShiftedByAll(call.anchor, call.text)
           /\ call.du = ShiftedByAll(call.anchor, call.text)

\* Feb 29 of the first leap year, from the anchor's year on, whose Feb 29 is after
\* the anchor (a leap year comes within eight years)
FirstLeapDayAfter(anchor) ==
    LET leaps == { y \in anchor.year..(anchor.year + 8) :
                     IsLeap(y) /\ DateLT(anchor, Date(y, 2, 29)) }
    IN Date(CHOOSE y \in leaps : \A z \in leaps : y <= z, 2, 29)

\* C12 (as claimed): for every anchor, "Feb 29" parses without raising and gives
\* Feb 29 of the first leap year, scanning forward from the anchor's year, whose
\* Feb 29 lies after the anchor (2000-01-01 gives 2000-02-29, 2001-01-01 gives
\* 2004-02-29), in both parsers.
C12_FebTwentyNineNextLeapYear ==
    (call.done /\ call.text = FebTwentyNine /\ call.anchor # None)
        => /\ call.ev = FirstLeapDayAfter(call.anchor)
           /\ call.du = FirstLeapDayAfter(call.anchor)

\* the first and the last day of an event time: the date of an instant, the start and
\* the end of a period
FirstDay(t) == IF t.start # None THEN t.start ELSE t.date
LastDay(t) == IF t.start # None THEN t.end ELSE t.date

\* the days the windows and event times are drawn from, with a day's margin
NearDays == {AddDays(Date(2023, 5, 1), k) : k \in (-1)..MaxDay}

\* the half-open window [windowStart, windowEnd) and the half-open interval
\* [startOf(), endOf()) of the event time have a day in common
MeetsHalfOpen(t, windowStart, windowEnd) ==
    \E d \in NearDays :
        /\ DateLE(windowStart, d) /\ DateLT(d, windowEnd)
        /\ DateLE(FirstDay(t), d) /\ DateLT(d, LastDay(t))

\* the window has a day on or after startOf() and a day on or before endOf()
ReachesBothEnds(t, windowStart, windowEnd) ==
    /\ \E d \in NearDays :
          DateLE(windowStart, d) /\ DateLT(d, windowEnd) /\ DateLE(FirstDay(t), d)
    /\ \E d \in NearDays :
          DateLE(windowStart, d) /\ DateLT(d, windowEnd) /\ DateLE(d, LastDay(t))

\* the window and the closed interval [startOf(), endOf()] have a day in common
MeetsClosed(t, windowStart, windowEnd) ==
    \E d \in NearDays :
        /\ DateLE(windowStart, d) /\ DateLT(d, windowEnd)
        /\ DateLE(FirstDay(t), d) /\ DateLE(d, LastDay(t))

C13_WitnessInstant ==
    /\ ocall.done /\ ocall.out
    /\ ocall.et.date # None
    /\ DateLT(ocall.start, ocall.et.date) /\ DateLT(ocall.et.date, ocall.end)

\* C13 witness: a period that ended before the window starts does not overlap it.
C13_WitnessDisjoint ==
    /\ ocall.done /\ ~ocall.out
    /\ ocall.et.start # None /\ DateLT(ocall.et.start, ocall.et.end)
    /\ DateLT(ocall.et.end, ocall.start)

\* C14 (as claimed): a relative-delta text parsed with a null anchor is resolved
\* against the current date, so it gives what the same text gives with today as the
\* anchor, in both parsers.
C14_NullAnchorDeltaUsesToday ==
    (call.done /\ IsDeltaText(call.text) /\ call.anchor = None)
        => /\ call.ev = EventTime_parse_date(call.text, today)
           /\ call.du = parse_date_str(call.text, today)

====
